---- MODULE Spec2Model ----
(***************************************************************************)
(* Batched Lie-group kernels of lietorch (src/lietorch/src/lietorch_gpu.cu) *)
(* as a state machine: a host thread that calls one entry point at a time,  *)
(* and the lanes of the kernel that the entry point launched, which run     *)
(* asynchronously to the host.                                              *)
(*                                                                         *)
(* Buffers are flat arrays indexed from 0, as the kernels address them      *)
(* (pointer + i*width + j).  A scalar is a sequence of integers: <<v>> for  *)
(* a value of an input buffer, <<0>> for the zero that torch::zeros writes, *)
(* and a longer sequence for a value computed by the group mathematics,     *)
(* which lives in so3.h, rxso3.h, se3.h, sim3.h and is kept uninterpreted:  *)
(* the sequence is the prefix form of the expression that was evaluated.    *)
(***************************************************************************)
EXTENDS Integers, Sequences, FiniteSets, TLC

\* ------------------------------------------------------------------ bounds
MaxB == 3          \* largest batch size of a call
MaxSeed == 2       \* number of different fillings of the input rows of a call
MaxGrid == 2       \* largest gridDim of a directly launched kernel (SpecKernel)
MaxBlock == 2      \* largest blockDim of a directly launched kernel (SpecKernel)
MaxKB == 5         \* largest row count of a directly launched kernel (SpecKernel)
MaxExtra == 1      \* rows the inputs after the first may have beyond its B (SpecAny)

\* ------------------------------------------------------- program constants
NUM_THREADS == 256

NUM_BLOCKS(batch_size) == (batch_size + NUM_THREADS - 1) \div NUM_THREADS

\* at::ScalarType tags of the tensors a caller may pass
Float == 6
Double == 7
Half == 5

ScalarTypes == {Float, Double, Half}

\* group identifiers a caller may pass; 1..4 are the four groups
SO3 == 1
RxSO3 == 2
SE3 == 3
Sim3 == 4
BadGroup == 99

ValidGroups == {SO3, RxSO3, SE3, Sim3}
GroupIds == ValidGroups \cup {BadGroup}

\* Group::N, the embedded dimension (quaternion, +scale, +translation)
GroupN(G) == CASE G = SO3 -> 4 [] G = RxSO3 -> 5 [] G = SE3 -> 7 [] G = Sim3 -> 8

\* Group::K, the tangent dimension
GroupK(G) == CASE G = SO3 -> 3 [] G = RxSO3 -> 4 [] G = SE3 -> 6 [] G = Sim3 -> 7

\* ------------------------------------------------- uninterpreted mathematics
\* Heads of the prefix expressions (negative, so that they differ from values).
cVec == 0 - 1
cGroup == 0 - 2
cExp == 0 - 3
cLog == 0 - 4
cInv == 0 - 5
cMul == 0 - 6
cAdjMat == 0 - 7
cAdjAct == 0 - 8
cAdjTAct == 0 - 9
cadj == 0 - 10
cLeftJac == 0 - 11
cLeftJacInv == 0 - 12
cAct == 0 - 13
cAct4 == 0 - 14
cMatrix4x4 == 0 - 15
cBlock33 == 0 - 16
cProjector == 0 - 17
cActJac == 0 - 18
cAct4Jac == 0 - 19
cVecMat == 0 - 20
cMatVec == 0 - 21
cNeg == 0 - 22
cData == 0 - 23
cCoeff == 0 - 24

RECURSIVE Flat(_)
Flat(v) == IF v = <<>> THEN <<>> ELSE Head(v) \o Flat(Tail(v))

\* an Eigen vector built from n scalars read from memory
Vec(v) == <<cVec, Len(v)>> \o Flat(v)

\* coefficient j (0-based, row-major for a matrix) of the value of expression e
Coeff(e, j) == <<cCoeff, j>> \o e

\* the n coefficients of the value of expression e, as a vector of scalars
Coeffs(e, n) == [j \in 1..n |-> Coeff(e, j - 1)]

\* Group(ptr): a group element of group G over scalar type st from N raw scalars
GroupOf(G, st, v) == <<cGroup, G, st>> \o Vec(v)
GExp(G, st, a) == <<cExp, G, st>> \o a
GLog(X) == <<cLog>> \o X
GInv(X) == <<cInv>> \o X
GMul(X, Y) == <<cMul>> \o X \o Y
GData(X) == <<cData>> \o X
GAdjMat(X) == <<cAdjMat>> \o X
GAdjAct(X, a) == <<cAdjAct>> \o X \o a
GAdjTAct(X, a) == <<cAdjTAct>> \o X \o a
Gadj(G, st, b) == <<cadj, G, st>> \o b
GLeftJac(G, st, a) == <<cLeftJac, G, st>> \o a
GLeftJacInv(G, st, a) == <<cLeftJacInv, G, st>> \o a
GAct(X, p) == <<cAct>> \o X \o p
GAct4(X, p) == <<cAct4>> \o X \o p
GMatrix4x4(X) == <<cMatrix4x4>> \o X
Block33(M) == <<cBlock33>> \o M
GProjector(X) == <<cProjector>> \o X
GActJac(G, st, q) == <<cActJac, G, st>> \o q
GAct4Jac(G, st, q) == <<cAct4Jac, G, st>> \o q
VecMat(r, M) == <<cVecMat>> \o r \o M
MatVec(M, v) == <<cMatVec>> \o M \o v
Neg(v) == <<cNeg>> \o v

\* ------------------------------------------------------------------ memory
InBufs == {"grad", "in1", "in2"}
OutBufs == {"out1", "out2"}
Bufs == InBufs \cup OutBufs

Zero == <<0>>

\* number of scalars of a tensor of shape s
RECURSIVE Numel(_)
Numel(s) == IF s = <<>> THEN 1 ELSE Head(s) * Numel(Tail(s))

\* scalars of one row of a tensor of shape s
RowWidth(s) == Numel(Tail(s))

BufTag(b) == CASE b = "grad" -> 1 [] b = "in1" -> 2 [] b = "in2" -> 3

\* the content of input buffer b of shape s whose row r was filled from seed[r]
InputBuf(b, s, seed) ==
    [k \in 0..(Numel(s) - 1) |->
        <<BufTag(b) * 1000 + seed[(k \div RowWidth(s)) + 1] * 100 + (k % RowWidth(s))>>]

\* torch::zeros(shape)
zeros(s) == [k \in 0..(Numel(s) - 1) |-> Zero]

NoBuf == [k \in {} |-> Zero]

\* what a read outside a buffer yields: not a value of any buffer
Garbage == <<0 - 99>>

\* the n scalars at ptr + off .. ptr + off + n - 1
Ld(m, b, off, n) ==
    [j \in 1..n |-> IF (off + j - 1) \in DOMAIN m[b] THEN m[b][off + j - 1] ELSE Garbage]

\* ----------------------------------------------------------------- kernels
\* The body of a kernel for row i, given memory m: the slices it reads
\* (rd: <<buffer, offset, length>>) and the slices it writes
\* (wr: <<buffer, offset, vector of scalars>>).
Body(rd, wr) == [rd |-> rd, wr |-> wr]

exp_forward_kernel(m, G, st, a_ptr, X_ptr, i) ==
    LET a == Ld(m, a_ptr, i * GroupK(G), GroupK(G))
    IN  Body(<< <<a_ptr, i * GroupK(G), GroupK(G)>> >>,
             << <<X_ptr, i * GroupN(G),
                  Coeffs(GData(GExp(G, st, Vec(a))), GroupN(G))>> >>)

exp_backward_kernel(m, G, st, grad, a_ptr, da, i) ==
    LET a == Ld(m, a_ptr, i * GroupK(G), GroupK(G))
        dX == Ld(m, grad, i * GroupN(G), GroupK(G))
    IN  Body(<< <<a_ptr, i * GroupK(G), GroupK(G)>>,
                <<grad, i * GroupN(G), GroupK(G)>> >>,
             << <<da, i * GroupK(G),
                  Coeffs(VecMat(Vec(dX), GLeftJac(G, st, Vec(a))), GroupK(G))>> >>)

log_forward_kernel(m, G, st, X_ptr, a_ptr, i) ==
    LET a == GLog(GroupOf(G, st, Ld(m, X_ptr, i * GroupN(G), GroupN(G))))
    IN  Body(<< <<X_ptr, i * GroupN(G), GroupN(G)>> >>,
             << <<a_ptr, i * GroupK(G), Coeffs(a, GroupK(G))>> >>)

log_backward_kernel(m, G, st, grad, X_ptr, dX, i) ==
    LET a == GLog(GroupOf(G, st, Ld(m, X_ptr, i * GroupN(G), GroupN(G))))
        da == Ld(m, grad, i * GroupK(G), GroupK(G))
    IN  Body(<< <<X_ptr, i * GroupN(G), GroupN(G)>>,
                <<grad, i * GroupK(G), GroupK(G)>> >>,
             << <<dX, i * GroupN(G),
                  Coeffs(VecMat(Vec(da), GLeftJacInv(G, st, a)), GroupK(G))>> >>)

inv_forward_kernel(m, G, st, X_ptr, Y_ptr, i) ==
    LET X == GroupOf(G, st, Ld(m, X_ptr, i * GroupN(G), GroupN(G)))
    IN  Body(<< <<X_ptr, i * GroupN(G), GroupN(G)>> >>,
             << <<Y_ptr, i * GroupN(G), Coeffs(GData(GInv(X)), GroupN(G))>> >>)

\* inv_backward_kernel with the upstream gradient read over the whole row
inv_backward_kernel_gradRowN(m, G, st, grad, X_ptr, dX, i) ==
    LET Y == GInv(GroupOf(G, st, Ld(m, X_ptr, i * GroupN(G), GroupN(G))))
        dY == Ld(m, grad, i * GroupN(G), GroupN(G))
    IN  Body(<< <<X_ptr, i * GroupN(G), GroupN(G)>>,
                <<grad, i * GroupN(G), GroupN(G)>> >>,
             << <<dX, i * GroupN(G),
                  Coeffs(VecMat(Neg(Vec(dY)), GAdjMat(Y)), GroupN(G))>> >>)

inv_backward_kernel(m, G, st, grad, X_ptr, dX, i) ==
    LET Y == GInv(GroupOf(G, st, Ld(m, X_ptr, i * GroupN(G), GroupN(G))))
        dY == Ld(m, grad, i * GroupN(G), GroupK(G))
    IN  Body(<< <<X_ptr, i * GroupN(G), GroupN(G)>>,
                <<grad, i * GroupN(G), GroupK(G)>> >>,
             << <<dX, i * GroupN(G),
                  Coeffs(VecMat(Neg(Vec(dY)), GAdjMat(Y)), GroupK(G))>> >>)

\* mul_forward_kernel with the row of Y addressed by the tangent width
mul_forward_kernel_rowK(m, G, st, X_ptr, Y_ptr, Z_ptr, i) ==
    LET Z == GMul(GroupOf(G, st, Ld(m, X_ptr, i * GroupN(G), GroupN(G))),
                  GroupOf(G, st, Ld(m, Y_ptr, i * GroupK(G), GroupN(G))))
    IN  Body(<< <<X_ptr, i * GroupN(G), GroupN(G)>>,
                <<Y_ptr, i * GroupK(G), GroupN(G)>> >>,
             << <<Z_ptr, i * GroupN(G), Coeffs(GData(Z), GroupN(G))>> >>)

mul_forward_kernel(m, G, st, X_ptr, Y_ptr, Z_ptr, i) ==
    LET Z == GMul(GroupOf(G, st, Ld(m, X_ptr, i * GroupN(G), GroupN(G))),
                  GroupOf(G, st, Ld(m, Y_ptr, i * GroupN(G), GroupN(G))))
    IN  Body(<< <<X_ptr, i * GroupN(G), GroupN(G)>>,
                <<Y_ptr, i * GroupN(G), GroupN(G)>> >>,
             << <<Z_ptr, i * GroupN(G), Coeffs(GData(Z), GroupN(G))>> >>)

\* mul_backward_kernel with the adjoint of Y in place of the adjoint of X
mul_backward_kernel_AdjY(m, G, st, grad, X_ptr, Y_ptr, dX, dY, i) ==
    LET dZ == Ld(m, grad, i * GroupN(G), GroupK(G))
        Y == GroupOf(G, st, Ld(m, Y_ptr, i * GroupN(G), GroupN(G)))
    IN  Body(<< <<grad, i * GroupN(G), GroupK(G)>>,
                <<Y_ptr, i * GroupN(G), GroupN(G)>> >>,
             << <<dX, i * GroupN(G), dZ>>,
                <<dY, i * GroupN(G),
                  Coeffs(VecMat(Vec(dZ), GAdjMat(Y)), GroupK(G))>> >>)

mul_backward_kernel(m, G, st, grad, X_ptr, Y_ptr, dX, dY, i) ==
    LET dZ == Ld(m, grad, i * GroupN(G), GroupK(G))
        X == GroupOf(G, st, Ld(m, X_ptr, i * GroupN(G), GroupN(G)))
    IN  Body(<< <<grad, i * GroupN(G), GroupK(G)>>,
                <<X_ptr, i * GroupN(G), GroupN(G)>> >>,
             << <<dX, i * GroupN(G), dZ>>,
                <<dY, i * GroupN(G),
                  Coeffs(VecMat(Vec(dZ), GAdjMat(X)), GroupK(G))>> >>)

\* adj_forward_kernel with the tangent vector read without the row offset
adj_forward_kernel_row0(m, G, st, X_ptr, a_ptr, b_ptr, i) ==
    LET X == GroupOf(G, st, Ld(m, X_ptr, i * GroupN(G), GroupN(G)))
        a == Ld(m, a_ptr, 0, GroupK(G))
    IN  Body(<< <<X_ptr, i * GroupN(G), GroupN(G)>>,
                <<a_ptr, 0, GroupK(G)>> >>,
             << <<b_ptr, i * GroupK(G), Coeffs(GAdjAct(X, Vec(a)), GroupK(G))>> >>)

adj_forward_kernel(m, G, st, X_ptr, a_ptr, b_ptr, i) ==
    LET X == GroupOf(G, st, Ld(m, X_ptr, i * GroupN(G), GroupN(G)))
        a == Ld(m, a_ptr, i * GroupK(G), GroupK(G))
    IN  Body(<< <<X_ptr, i * GroupN(G), GroupN(G)>>,
                <<a_ptr, i * GroupK(G), GroupK(G)>> >>,
             << <<b_ptr, i * GroupK(G), Coeffs(GAdjAct(X, Vec(a)), GroupK(G))>> >>)

\* adj_backward_kernel with adj taken of a instead of Adj(X) * a
adj_backward_kernel_adja(m, G, st, grad, X_ptr, a_ptr, dX, da, i) ==
    LET X == GroupOf(G, st, Ld(m, X_ptr, i * GroupN(G), GroupN(G)))
        db == Ld(m, grad, i * GroupK(G), GroupK(G))
        a == Ld(m, a_ptr, i * GroupK(G), GroupK(G))
    IN  Body(<< <<X_ptr, i * GroupN(G), GroupN(G)>>,
                <<grad, i * GroupK(G), GroupK(G)>>,
                <<a_ptr, i * GroupK(G), GroupK(G)>> >>,
             << <<da, i * GroupK(G),
                  Coeffs(VecMat(Vec(db), GAdjMat(X)), GroupK(G))>>,
                <<dX, i * GroupN(G),
                  Coeffs(VecMat(Neg(Vec(db)), Gadj(G, st, Vec(a))), GroupK(G))>> >>)

adj_backward_kernel(m, G, st, grad, X_ptr, a_ptr, dX, da, i) ==
    LET X == GroupOf(G, st, Ld(m, X_ptr, i * GroupN(G), GroupN(G)))
        db == Ld(m, grad, i * GroupK(G), GroupK(G))
        a == Ld(m, a_ptr, i * GroupK(G), GroupK(G))
        b == MatVec(GAdjMat(X), Vec(a))
    IN  Body(<< <<X_ptr, i * GroupN(G), GroupN(G)>>,
                <<grad, i * GroupK(G), GroupK(G)>>,
                <<a_ptr, i * GroupK(G), GroupK(G)>> >>,
             << <<da, i * GroupK(G),
                  Coeffs(VecMat(Vec(db), GAdjMat(X)), GroupK(G))>>,
                <<dX, i * GroupN(G),
                  Coeffs(VecMat(Neg(Vec(db)), Gadj(G, st, b)), GroupK(G))>> >>)

adjT_forward_kernel(m, G, st, X_ptr, a_ptr, b_ptr, i) ==
    LET X == GroupOf(G, st, Ld(m, X_ptr, i * GroupN(G), GroupN(G)))
        a == Ld(m, a_ptr, i * GroupK(G), GroupK(G))
    IN  Body(<< <<X_ptr, i * GroupN(G), GroupN(G)>>,
                <<a_ptr, i * GroupK(G), GroupK(G)>> >>,
             << <<b_ptr, i * GroupK(G), Coeffs(GAdjTAct(X, Vec(a)), GroupK(G))>> >>)

adjT_backward_kernel(m, G, st, grad, X_ptr, a_ptr, dX, da, i) ==
    LET X == GroupOf(G, st, Ld(m, X_ptr, i * GroupN(G), GroupN(G)))
        db == Ld(m, grad, i * GroupK(G), GroupK(G))
        a == Ld(m, a_ptr, i * GroupK(G), GroupK(G))
    IN  Body(<< <<X_ptr, i * GroupN(G), GroupN(G)>>,
                <<grad, i * GroupK(G), GroupK(G)>>,
                <<a_ptr, i * GroupK(G), GroupK(G)>> >>,
             << <<da, i * GroupK(G), Coeffs(GAdjAct(X, Vec(db)), GroupK(G))>>,
                <<dX, i * GroupN(G),
                  Coeffs(VecMat(Neg(Vec(a)), Gadj(G, st, GAdjAct(X, Vec(db)))),
                         GroupK(G))>> >>)

act_forward_kernel(m, G, st, X_ptr, p_ptr, q_ptr, i) ==
    LET X == GroupOf(G, st, Ld(m, X_ptr, i * GroupN(G), GroupN(G)))
        p == Ld(m, p_ptr, i * 3, 3)
    IN  Body(<< <<X_ptr, i * GroupN(G), GroupN(G)>>, <<p_ptr, i * 3, 3>> >>,
             << <<q_ptr, i * 3, Coeffs(GAct(X, Vec(p)), 3)>> >>)

\* act_backward_kernel with the row of dX addressed by the tangent width
act_backward_kernel_dXrowK(m, G, st, grad, X_ptr, p_ptr, dX, dp, i) ==
    LET X == GroupOf(G, st, Ld(m, X_ptr, i * GroupN(G), GroupN(G)))
        p == Ld(m, p_ptr, i * 3, 3)
        dq == Ld(m, grad, i * 3, 3)
    IN  Body(<< <<X_ptr, i * GroupN(G), GroupN(G)>>, <<p_ptr, i * 3, 3>>,
                <<grad, i * 3, 3>> >>,
             << <<dp, i * 3, Coeffs(VecMat(Vec(dq), Block33(GMatrix4x4(X))), 3)>>,
                <<dX, i * GroupK(G),
                  Coeffs(VecMat(Vec(dq), GActJac(G, st, GAct(X, Vec(p)))),
                         GroupK(G))>> >>)

act_backward_kernel(m, G, st, grad, X_ptr, p_ptr, dX, dp, i) ==
    LET X == GroupOf(G, st, Ld(m, X_ptr, i * GroupN(G), GroupN(G)))
        p == Ld(m, p_ptr, i * 3, 3)
        dq == Ld(m, grad, i * 3, 3)
    IN  Body(<< <<X_ptr, i * GroupN(G), GroupN(G)>>, <<p_ptr, i * 3, 3>>,
                <<grad, i * 3, 3>> >>,
             << <<dp, i * 3, Coeffs(VecMat(Vec(dq), Block33(GMatrix4x4(X))), 3)>>,
                <<dX, i * GroupN(G),
                  Coeffs(VecMat(Vec(dq), GActJac(G, st, GAct(X, Vec(p)))),
                         GroupK(G))>> >>)

act4_forward_kernel(m, G, st, X_ptr, p_ptr, q_ptr, i) ==
    LET X == GroupOf(G, st, Ld(m, X_ptr, i * GroupN(G), GroupN(G)))
        p == Ld(m, p_ptr, i * 4, 4)
    IN  Body(<< <<X_ptr, i * GroupN(G), GroupN(G)>>, <<p_ptr, i * 4, 4>> >>,
             << <<q_ptr, i * 4, Coeffs(GAct4(X, Vec(p)), 4)>> >>)

act4_backward_kernel(m, G, st, grad, X_ptr, p_ptr, dX, dp, i) ==
    LET X == GroupOf(G, st, Ld(m, X_ptr, i * GroupN(G), GroupN(G)))
        p == Ld(m, p_ptr, i * 4, 4)
        dq == Ld(m, grad, i * 4, 4)
        q == GAct4(X, Vec(p))
    IN  Body(<< <<X_ptr, i * GroupN(G), GroupN(G)>>, <<p_ptr, i * 4, 4>>,
                <<grad, i * 4, 4>> >>,
             << <<dp, i * 4, Coeffs(VecMat(Vec(dq), GMatrix4x4(X)), 4)>>,
                <<dX, i * GroupN(G),
                  Coeffs(VecMat(Vec(dq), GAct4Jac(G, st, q)), GroupK(G))>> >>)

as_matrix_forward_kernel(m, G, st, X_ptr, T_ptr, i) ==
    LET X == GroupOf(G, st, Ld(m, X_ptr, i * GroupN(G), GroupN(G)))
    IN  Body(<< <<X_ptr, i * GroupN(G), GroupN(G)>> >>,
             << <<T_ptr, i * 16, Coeffs(GMatrix4x4(X), 16)>> >>)

orthogonal_projector_kernel(m, G, st, X_ptr, P_ptr, i) ==
    LET X == GroupOf(G, st, Ld(m, X_ptr, i * GroupN(G), GroupN(G)))
    IN  Body(<< <<X_ptr, i * GroupN(G), GroupN(G)>> >>,
             << <<P_ptr, i * GroupN(G) * GroupN(G),
                  Coeffs(GProjector(X), GroupN(G) * GroupN(G))>> >>)

\* jleft_forward_kernel with the Jacobian inverse evaluated at a instead of Log(X)
jleft_forward_kernel_atA(m, G, st, X_ptr, a_ptr, b_ptr, i) ==
    LET X == GroupOf(G, st, Ld(m, X_ptr, i * GroupN(G), GroupN(G)))
        a == Ld(m, a_ptr, i * GroupK(G), GroupK(G))
        b == MatVec(GLeftJacInv(G, st, Vec(a)), Vec(a))
    IN  Body(<< <<X_ptr, i * GroupN(G), GroupN(G)>>,
                <<a_ptr, i * GroupK(G), GroupK(G)>> >>,
             << <<b_ptr, i * GroupK(G), Coeffs(b, GroupK(G))>> >>)

jleft_forward_kernel(m, G, st, X_ptr, a_ptr, b_ptr, i) ==
    LET X == GroupOf(G, st, Ld(m, X_ptr, i * GroupN(G), GroupN(G)))
        a == Ld(m, a_ptr, i * GroupK(G), GroupK(G))
        b == MatVec(GLeftJacInv(G, st, GLog(X)), Vec(a))
    IN  Body(<< <<X_ptr, i * GroupN(G), GroupN(G)>>,
                <<a_ptr, i * GroupK(G), GroupK(G)>> >>,
             << <<b_ptr, i * GroupK(G), Coeffs(b, GroupK(G))>> >>)

\* the kernel named k, with its pointer arguments p bound by the entry point
KernelBody(k, m, G, st, p, i) ==
    CASE k = "exp_forward_kernel" -> exp_forward_kernel(m, G, st, p[1], p[2], i)
      [] k = "exp_backward_kernel" -> exp_backward_kernel(m, G, st, p[1], p[2], p[3], i)
      [] k = "log_forward_kernel" -> log_forward_kernel(m, G, st, p[1], p[2], i)
      [] k = "log_backward_kernel" -> log_backward_kernel(m, G, st, p[1], p[2], p[3], i)
      [] k = "inv_forward_kernel" -> inv_forward_kernel(m, G, st, p[1], p[2], i)
      [] k = "inv_backward_kernel" -> inv_backward_kernel(m, G, st, p[1], p[2], p[3], i)
      [] k = "mul_forward_kernel" -> mul_forward_kernel(m, G, st, p[1], p[2], p[3], i)
      [] k = "mul_backward_kernel" ->
            mul_backward_kernel(m, G, st, p[1], p[2], p[3], p[4], p[5], i)
      [] k = "adj_forward_kernel" -> adj_forward_kernel(m, G, st, p[1], p[2], p[3], i)
      [] k = "adj_backward_kernel" ->
            adj_backward_kernel(m, G, st, p[1], p[2], p[3], p[4], p[5], i)
      [] k = "adjT_forward_kernel" -> adjT_forward_kernel(m, G, st, p[1], p[2], p[3], i)
      [] k = "adjT_backward_kernel" ->
            adjT_backward_kernel(m, G, st, p[1], p[2], p[3], p[4], p[5], i)
      [] k = "act_forward_kernel" -> act_forward_kernel(m, G, st, p[1], p[2], p[3], i)
      [] k = "act_backward_kernel" ->
            act_backward_kernel(m, G, st, p[1], p[2], p[3], p[4], p[5], i)
      [] k = "act4_forward_kernel" -> act4_forward_kernel(m, G, st, p[1], p[2], p[3], i)
      [] k = "act4_backward_kernel" ->
            act4_backward_kernel(m, G, st, p[1], p[2], p[3], p[4], p[5], i)
      [] k = "as_matrix_forward_kernel" ->
            as_matrix_forward_kernel(m, G, st, p[1], p[2], i)
      [] k = "orthogonal_projector_kernel" ->
            orthogonal_projector_kernel(m, G, st, p[1], p[2], i)
      [] k = "jleft_forward_kernel" -> jleft_forward_kernel(m, G, st, p[1], p[2], p[3], i)

\* ------------------------------------------------------------ entry points
\* An entry point, given the shapes sz of its tensor arguments ("grad" is the
\* upstream gradient, "in1" and "in2" the other tensor arguments in order):
\* batch_size, the tensors allocated before the dispatch (pre) and inside the
\* dispatched lambda (inside, by group_t), the kernel launched and the tensors
\* bound to its pointer parameters, whether C10_CUDA_KERNEL_LAUNCH_CHECK
\* follows, and the tensors returned, in order.
exp_forward_gpu(sz) ==
    LET batch_size == sz["in1"][1]
    IN  [batch_size |-> batch_size,
         pre |-> <<  >>,
         inside |-> [G \in ValidGroups |-> << <<"out1", <<batch_size, GroupN(G)>>>> >>],
         kernel |-> "exp_forward_kernel",
         args |-> << "in1", "out1" >>,
         check |-> FALSE,
         ret |-> << "out1" >>]

exp_backward_gpu(sz) ==
    LET batch_size == sz["in1"][1]
    IN  [batch_size |-> batch_size,
         pre |-> << <<"out1", sz["in1"]>> >>,
         inside |-> [G \in ValidGroups |-> <<  >>],
         kernel |-> "exp_backward_kernel",
         args |-> << "grad", "in1", "out1" >>,
         check |-> FALSE,
         ret |-> << "out1" >>]

log_forward_gpu(sz) ==
    LET batch_size == sz["in1"][1]
    IN  [batch_size |-> batch_size,
         pre |-> <<  >>,
         inside |-> [G \in ValidGroups |-> << <<"out1", <<batch_size, GroupK(G)>>>> >>],
         kernel |-> "log_forward_kernel",
         args |-> << "in1", "out1" >>,
         check |-> FALSE,
         ret |-> << "out1" >>]

log_backward_gpu(sz) ==
    LET batch_size == sz["in1"][1]
    IN  [batch_size |-> batch_size,
         pre |-> << <<"out1", sz["in1"]>> >>,
         inside |-> [G \in ValidGroups |-> <<  >>],
         kernel |-> "log_backward_kernel",
         args |-> << "grad", "in1", "out1" >>,
         check |-> FALSE,
         ret |-> << "out1" >>]

inv_forward_gpu(sz) ==
    LET batch_size == sz["in1"][1]
    IN  [batch_size |-> batch_size,
         pre |-> << <<"out1", sz["in1"]>> >>,
         inside |-> [G \in ValidGroups |-> <<  >>],
         kernel |-> "inv_forward_kernel",
         args |-> << "in1", "out1" >>,
         check |-> FALSE,
         ret |-> << "out1" >>]

inv_backward_gpu(sz) ==
    LET batch_size == sz["in1"][1]
    IN  [batch_size |-> batch_size,
         pre |-> << <<"out1", sz["in1"]>> >>,
         inside |-> [G \in ValidGroups |-> <<  >>],
         kernel |-> "inv_backward_kernel",
         args |-> << "grad", "in1", "out1" >>,
         check |-> FALSE,
         ret |-> << "out1" >>]

mul_forward_gpu(sz) ==
    LET batch_size == sz["in1"][1]
    IN  [batch_size |-> batch_size,
         pre |-> << <<"out1", sz["in1"]>> >>,
         inside |-> [G \in ValidGroups |-> <<  >>],
         kernel |-> "mul_forward_kernel",
         args |-> << "in1", "in2", "out1" >>,
         check |-> FALSE,
         ret |-> << "out1" >>]

mul_backward_gpu(sz) ==
    LET batch_size == sz["in1"][1]
    IN  [batch_size |-> batch_size,
         pre |-> << <<"out1", sz["in1"]>>, <<"out2", sz["in2"]>> >>,
         inside |-> [G \in ValidGroups |-> <<  >>],
         kernel |-> "mul_backward_kernel",
         args |-> << "grad", "in1", "in2", "out1", "out2" >>,
         check |-> FALSE,
         ret |-> << "out1", "out2" >>]

\* adj_forward_gpu with the output allocated like X
adj_forward_gpu_likeX(sz) ==
    LET batch_size == sz["in1"][1]
    IN  [batch_size |-> batch_size,
         pre |-> << <<"out1", sz["in1"]>> >>,
         inside |-> [G \in ValidGroups |-> <<  >>],
         kernel |-> "adj_forward_kernel",
         args |-> << "in1", "in2", "out1" >>,
         check |-> FALSE,
         ret |-> << "out1" >>]

adj_forward_gpu(sz) ==
    LET batch_size == sz["in1"][1]
    IN  [batch_size |-> batch_size,
         pre |-> << <<"out1", sz["in2"]>> >>,
         inside |-> [G \in ValidGroups |-> <<  >>],
         kernel |-> "adj_forward_kernel",
         args |-> << "in1", "in2", "out1" >>,
         check |-> FALSE,
         ret |-> << "out1" >>]

\* adj_backward_gpu with X passed where the kernel expects dX
adj_backward_gpu_intoX(sz) ==
    LET batch_size == sz["in1"][1]
    IN  [batch_size |-> batch_size,
         pre |-> << <<"out1", sz["in1"]>>, <<"out2", sz["in2"]>> >>,
         inside |-> [G \in ValidGroups |-> <<  >>],
         kernel |-> "adj_backward_kernel",
         args |-> << "grad", "in1", "in2", "in1", "out2" >>,
         check |-> FALSE,
         ret |-> << "out1", "out2" >>]

adj_backward_gpu(sz) ==
    LET batch_size == sz["in1"][1]
    IN  [batch_size |-> batch_size,
         pre |-> << <<"out1", sz["in1"]>>, <<"out2", sz["in2"]>> >>,
         inside |-> [G \in ValidGroups |-> <<  >>],
         kernel |-> "adj_backward_kernel",
         args |-> << "grad", "in1", "in2", "out1", "out2" >>,
         check |-> FALSE,
         ret |-> << "out1", "out2" >>]

adjT_forward_gpu(sz) ==
    LET batch_size == sz["in1"][1]
    IN  [batch_size |-> batch_size,
         pre |-> << <<"out1", sz["in2"]>> >>,
         inside |-> [G \in ValidGroups |-> <<  >>],
         kernel |-> "adjT_forward_kernel",
         args |-> << "in1", "in2", "out1" >>,
         check |-> FALSE,
         ret |-> << "out1" >>]

adjT_backward_gpu(sz) ==
    LET batch_size == sz["in1"][1]
    IN  [batch_size |-> batch_size,
         pre |-> << <<"out1", sz["in1"]>>, <<"out2", sz["in2"]>> >>,
         inside |-> [G \in ValidGroups |-> <<  >>],
         kernel |-> "adjT_backward_kernel",
         args |-> << "grad", "in1", "in2", "out1", "out2" >>,
         check |-> FALSE,
         ret |-> << "out1", "out2" >>]

act_forward_gpu(sz) ==
    LET batch_size == sz["in1"][1]
    IN  [batch_size |-> batch_size,
         pre |-> << <<"out1", sz["in2"]>> >>,
         inside |-> [G \in ValidGroups |-> <<  >>],
         kernel |-> "act_forward_kernel",
         args |-> << "in1", "in2", "out1" >>,
         check |-> FALSE,
         ret |-> << "out1" >>]

\* act_backward_gpu with batch_size taken from p
act_backward_gpu_batchFromP(sz) ==
    LET batch_size == sz["in2"][1]
    IN  [batch_size |-> batch_size,
         pre |-> << <<"out1", sz["in1"]>>, <<"out2", sz["in2"]>> >>,
         inside |-> [G \in ValidGroups |-> <<  >>],
         kernel |-> "act_backward_kernel",
         args |-> << "grad", "in1", "in2", "out1", "out2" >>,
         check |-> FALSE,
         ret |-> << "out1", "out2" >>]

act_backward_gpu(sz) ==
    LET batch_size == sz["in1"][1]
    IN  [batch_size |-> batch_size,
         pre |-> << <<"out1", sz["in1"]>>, <<"out2", sz["in2"]>> >>,
         inside |-> [G \in ValidGroups |-> <<  >>],
         kernel |-> "act_backward_kernel",
         args |-> << "grad", "in1", "in2", "out1", "out2" >>,
         check |-> FALSE,
         ret |-> << "out1", "out2" >>]

act4_forward_gpu(sz) ==
    LET batch_size == sz["in1"][1]
    IN  [batch_size |-> batch_size,
         pre |-> << <<"out1", sz["in2"]>> >>,
         inside |-> [G \in ValidGroups |-> <<  >>],
         kernel |-> "act4_forward_kernel",
         args |-> << "in1", "in2", "out1" >>,
         check |-> FALSE,
         ret |-> << "out1" >>]

act4_backward_gpu(sz) ==
    LET batch_size == sz["in1"][1]
    IN  [batch_size |-> batch_size,
         pre |-> << <<"out1", sz["in1"]>>, <<"out2", sz["in2"]>> >>,
         inside |-> [G \in ValidGroups |-> <<  >>],
         kernel |-> "act4_backward_kernel",
         args |-> << "grad", "in1", "in2", "out1", "out2" >>,
         check |-> FALSE,
         ret |-> << "out1", "out2" >>]

as_matrix_forward_gpu(sz) ==
    LET batch_size == sz["in1"][1]
    IN  [batch_size |-> batch_size,
         pre |-> << <<"out1", <<sz["in1"][1], 4, 4>>>> >>,
         inside |-> [G \in ValidGroups |-> <<  >>],
         kernel |-> "as_matrix_forward_kernel",
         args |-> << "in1", "out1" >>,
         check |-> FALSE,
         ret |-> << "out1" >>]

orthogonal_projector_gpu(sz) ==
    LET batch_size == sz["in1"][1]
    IN  [batch_size |-> batch_size,
         pre |-> <<  >>,
         inside |-> [G \in ValidGroups |-> << <<"out1", <<sz["in1"][1], GroupN(G), GroupN(G)>>>> >>],
         kernel |-> "orthogonal_projector_kernel",
         args |-> << "in1", "out1" >>,
         check |-> TRUE,
         ret |-> << "out1" >>]

jleft_forward_gpu(sz) ==
    LET batch_size == sz["in1"][1]
    IN  [batch_size |-> batch_size,
         pre |-> << <<"out1", sz["in2"]>> >>,
         inside |-> [G \in ValidGroups |-> <<  >>],
         kernel |-> "jleft_forward_kernel",
         args |-> << "in1", "in2", "out1" >>,
         check |-> TRUE,
         ret |-> << "out1" >>]

Ops ==
    {"exp_forward_gpu",
     "exp_backward_gpu",
     "log_forward_gpu",
     "log_backward_gpu",
     "inv_forward_gpu",
     "inv_backward_gpu",
     "mul_forward_gpu",
     "mul_backward_gpu",
     "adj_forward_gpu",
     "adj_backward_gpu",
     "adjT_forward_gpu",
     "adjT_backward_gpu",
     "act_forward_gpu",
     "act_backward_gpu",
     "act4_forward_gpu",
     "act4_backward_gpu",
     "as_matrix_forward_gpu",
     "orthogonal_projector_gpu",
     "jleft_forward_gpu"}

EntryPoint(op, sz) ==
    CASE op = "exp_forward_gpu" -> exp_forward_gpu(sz)
      [] op = "exp_backward_gpu" -> exp_backward_gpu(sz)
      [] op = "log_forward_gpu" -> log_forward_gpu(sz)
      [] op = "log_backward_gpu" -> log_backward_gpu(sz)
      [] op = "inv_forward_gpu" -> inv_forward_gpu(sz)
      [] op = "inv_backward_gpu" -> inv_backward_gpu(sz)
      [] op = "mul_forward_gpu" -> mul_forward_gpu(sz)
      [] op = "mul_backward_gpu" -> mul_backward_gpu(sz)
      [] op = "adj_forward_gpu" -> adj_forward_gpu(sz)
      [] op = "adj_backward_gpu" -> adj_backward_gpu(sz)
      [] op = "adjT_forward_gpu" -> adjT_forward_gpu(sz)
      [] op = "adjT_backward_gpu" -> adjT_backward_gpu(sz)
      [] op = "act_forward_gpu" -> act_forward_gpu(sz)
      [] op = "act_backward_gpu" -> act_backward_gpu(sz)
      [] op = "act4_forward_gpu" -> act4_forward_gpu(sz)
      [] op = "act4_backward_gpu" -> act4_backward_gpu(sz)
      [] op = "as_matrix_forward_gpu" -> as_matrix_forward_gpu(sz)
      [] op = "orthogonal_projector_gpu" -> orthogonal_projector_gpu(sz)
      [] op = "jleft_forward_gpu" -> jleft_forward_gpu(sz)

\* --------------------------------------------------------------- the caller
\* Shapes of the tensors a caller passes to entry point op for a batch of B
\* rows of group L: N scalars per element, K per tangent vector and per
\* tangent-space gradient, 3 or 4 per point; <<>> where op has no such argument.
InputShapes(op, L, B) ==
    LET N == <<B, GroupN(L)>>
        K == <<B, GroupK(L)>>
        none == <<>>
        S(g, a, b) == [grad |-> g, in1 |-> a, in2 |-> b]
    IN  CASE op = "exp_forward_gpu" -> S(none, K, none)
          [] op = "exp_backward_gpu" -> S(N, K, none)
          [] op = "log_forward_gpu" -> S(none, N, none)
          [] op = "log_backward_gpu" -> S(K, N, none)
          [] op = "inv_forward_gpu" -> S(none, N, none)
          [] op = "inv_backward_gpu" -> S(N, N, none)
          [] op = "mul_forward_gpu" -> S(none, N, N)
          [] op = "mul_backward_gpu" -> S(N, N, N)
          [] op \in {"adj_forward_gpu", "adjT_forward_gpu", "jleft_forward_gpu"} ->
                S(none, N, K)
          [] op \in {"adj_backward_gpu", "adjT_backward_gpu"} -> S(K, N, K)
          [] op = "act_forward_gpu" -> S(none, N, <<B, 3>>)
          [] op = "act_backward_gpu" -> S(<<B, 3>>, N, <<B, 3>>)
          [] op = "act4_forward_gpu" -> S(none, N, <<B, 4>>)
          [] op = "act4_backward_gpu" -> S(<<B, 4>>, N, <<B, 4>>)
          [] op \in {"as_matrix_forward_gpu", "orthogonal_projector_gpu"} ->
                S(none, N, none)

\* The shapes of the arguments of a call whose first input has B rows and whose
\* other arguments have B + extra rows.
ArgShapes(op, L, B, extra) ==
    LET s == InputShapes(op, L, B)
    IN  [b \in InBufs |-> IF b = "in1" \/ s[b] = <<>> THEN s[b]
                          ELSE <<B + extra>> \o Tail(s[b])]

\* the memory holding the arguments of a call
InputMem(sz, seed) ==
    [b \in Bufs |-> IF b \in InBufs /\ sz[b] # <<>> THEN InputBuf(b, sz[b], seed)
                    ELSE NoBuf]

\* DISPATCH_GROUP_AND_FLOATING_TYPES accepts the four groups in float or double
DISPATCH_GROUP_AND_FLOATING_TYPES(group_id, scalar_type) ==
    group_id \in ValidGroups /\ scalar_type \in {Float, Double}

\* ------------------------------------------------------------------- state
VARIABLES
    pc,        \* host: "idle", "dispatch", "launched", "returned", "raised"
    call,      \* arguments of the current call
    mem,       \* content of every tensor of the current call
    shape,     \* shape of every tensor of the current call, <<>> if none
    allocd,    \* output tensors the current call has allocated
    ret,       \* tensors the current call returned, in order
    err,       \* what the current call raised
    cudaErr,   \* the runtime's last error, as cudaGetLastError would report it
    checked,   \* the current call has performed the launch check
    kern,      \* the launch of the current call
    laneI,     \* loop variable i of every lane of the launched grid
    acc,       \* <<buffer, index, "r" or "w">> -> the units <<lane, row>> that
               \* read, or wrote, that location
    rowLog     \* row -> the lanes that have run the kernel body for it, in order

vars == <<pc, call, mem, shape, allocd, ret, err, cudaErr, checked, kern, laneI,
          acc, rowLog>>

NoCall == [op |-> "none", group_id |-> SO3, layout |-> SO3, st |-> Float, B |-> 0,
           extra |-> 0, seed |-> <<>>]

NoKernel == [state |-> "none", gridDim |-> 0, blockDim |-> 0, n |-> 0]

NoLanes == [t \in {} |-> 0]

NoAccess == [k \in {} |-> {}]

NoRows == [r \in {} |-> <<>>]

Init ==
    /\ pc = "idle"
    /\ call = NoCall
    /\ mem = [b \in Bufs |-> NoBuf]
    /\ shape = [b \in Bufs |-> <<>>]
    /\ allocd = {}
    /\ ret = <<>>
    /\ err = "none"
    /\ cudaErr = FALSE
    /\ checked = FALSE
    /\ kern = NoKernel
    /\ laneI = NoLanes
    /\ acc = NoAccess
    /\ rowLog = NoRows

\* every lane of the launched grid has left its loop
KernelDrained == \A t \in DOMAIN laneI : ~(laneI[t] < kern.n)

\* memory and shapes after allocating the tensors of list l with torch::zeros
RECURSIVE AllocMem(_, _)
AllocMem(m, l) ==
    IF l = <<>> THEN m
    ELSE AllocMem([m EXCEPT ![Head(l)[1]] = zeros(Head(l)[2])], Tail(l))

RECURSIVE AllocShape(_, _)
AllocShape(sh, l) ==
    IF l = <<>> THEN sh
    ELSE AllocShape([sh EXCEPT ![Head(l)[1]] = Head(l)[2]], Tail(l))

Allocated(l) == {l[k][1] : k \in DOMAIN l}

TheEntry == EntryPoint(call.op, [b \in InBufs |-> shape[b]])

\* The caller enters an entry point; the entry point reads batch_size and
\* allocates the outputs it allocates before dispatching.
Enter(op, group_id, layout, st, B, extra, seed) ==
    /\ pc = "idle"
    /\ LET sz == ArgShapes(op, layout, B, extra)
           ep == EntryPoint(op, sz)
       IN  /\ call' = [op |-> op, group_id |-> group_id, layout |-> layout,
                       st |-> st, B |-> B, extra |-> extra, seed |-> seed]
           /\ mem' = AllocMem(InputMem(sz, seed), ep.pre)
           /\ shape' = AllocShape([b \in Bufs |-> IF b \in InBufs THEN sz[b] ELSE <<>>],
                                  ep.pre)
           /\ allocd' = Allocated(ep.pre)
    /\ pc' = "dispatch"
    /\ ret' = <<>>
    /\ err' = "none"
    /\ checked' = FALSE
    /\ kern' = NoKernel
    /\ laneI' = NoLanes
    /\ acc' = NoAccess
    /\ rowLog' = NoRows
    /\ UNCHANGED cudaErr

\* kernel<<<grid, block>>>(..., n): the grid starts, every lane with
\* i = blockIdx.x * blockDim.x + threadIdx.x, unless the runtime rejects the
\* launch (a grid of no blocks is an invalid configuration; backend_ok is the
\* runtime's verdict otherwise), which it records as its last error.
Launch(grid, block, n, backend_ok) ==
    IF grid >= 1 /\ block >= 1 /\ backend_ok
    THEN /\ kern' = [state |-> "running", gridDim |-> grid, blockDim |-> block, n |-> n]
         /\ laneI' = [t \in 0..(grid * block - 1) |-> t]
         /\ UNCHANGED cudaErr
    ELSE /\ kern' = [state |-> "failed", gridDim |-> grid, blockDim |-> block, n |-> n]
         /\ laneI' = NoLanes
         /\ cudaErr' = TRUE

\* the dispatch macro where an unsupported group or type falls out of the
\* switch and the entry point goes on to its return statement
RejectUnsupported_fallthrough ==
    /\ pc' = "launched"
    /\ UNCHANGED <<mem, shape, allocd, cudaErr, kern, laneI, err>>

\* What the dispatch macro does with a group identifier or a scalar type it
\* does not support: it raises to the caller, the lambda is not run.  The
\* macro is defined in dispatch.h; this is the behaviour the specification
\* gives it.
RejectUnsupported ==
    /\ pc' = "raised"
    /\ err' = "UnsupportedGroupOrType"
    /\ UNCHANGED <<mem, shape, allocd, cudaErr, kern, laneI>>

\* The lambda handed to the dispatch macro, run for group_t and scalar_t: the
\* outputs allocated inside it, then the kernel launch.
DispatchedLambda ==
    /\ pc' = "launched"
    /\ mem' = AllocMem(mem, TheEntry.inside[call.group_id])
    /\ shape' = AllocShape(shape, TheEntry.inside[call.group_id])
    /\ allocd' = allocd \cup Allocated(TheEntry.inside[call.group_id])
    /\ \E backend_ok \in BOOLEAN :
          Launch(NUM_BLOCKS(TheEntry.batch_size), NUM_THREADS,
                 TheEntry.batch_size, backend_ok)
    /\ UNCHANGED err

\* DISPATCH_GROUP_AND_FLOATING_TYPES(group_id, type, name, lambda): the macro
\* rejects the call, or runs the lambda.
Dispatch ==
    /\ pc = "dispatch"
    /\ IF ~DISPATCH_GROUP_AND_FLOATING_TYPES(call.group_id, call.st)
       THEN RejectUnsupported
       ELSE DispatchedLambda
    /\ UNCHANGED <<call, ret, checked, acc, rowLog>>

\* After the dispatch: C10_CUDA_KERNEL_LAUNCH_CHECK where the entry point has
\* one (it takes the runtime's last error, and raises if there is one), then
\* the return statement.
Finish ==
    /\ pc = "launched"
    /\ IF TheEntry.check
       THEN /\ checked' = TRUE
            /\ cudaErr' = FALSE
            /\ IF cudaErr
               THEN pc' = "raised" /\ err' = "KernelLaunchFailure" /\ ret' = <<>>
               ELSE pc' = "returned" /\ err' = "none" /\ ret' = TheEntry.ret
       ELSE /\ pc' = "returned"
            /\ ret' = TheEntry.ret
            /\ UNCHANGED <<checked, cudaErr, err>>
    /\ UNCHANGED <<call, mem, shape, allocd, kern, laneI, acc, rowLog>>

\* memory after the writes of list w
RECURSIVE Store(_, _)
Store(m, w) ==
    IF w = <<>> THEN m
    ELSE LET b == Head(w)[1]
             off == Head(w)[2]
             v == Head(w)[3]
         IN  Store([m EXCEPT ![b] = [k \in DOMAIN m[b] |->
                                        IF k >= off /\ k < off + Len(v)
                                        THEN v[k - off + 1] ELSE m[b][k]]],
                   Tail(w))

\* the locations the kernel body reads and writes
Touched(body) ==
    UNION {{<<body.rd[k][1], body.rd[k][2] + j, "r">> :
                j \in 0..(body.rd[k][3] - 1)} : k \in DOMAIN body.rd}
    \cup
    UNION {{<<body.wr[k][1], body.wr[k][2] + j, "w">> :
                j \in 0..(Len(body.wr[k][3]) - 1)} : k \in DOMAIN body.wr}

\* the access log a, with the accesses of unit u added
Logged(a, u, body) ==
    LET new == Touched(body)
    IN  [key \in (DOMAIN a) \cup new |->
            (IF key \in DOMAIN a THEN a[key] ELSE {})
            \cup (IF key \in new THEN {u} ELSE {})]

\* LaneStep with the loop advancing by blockDim.x only
LaneStep_blockStride(t) ==
    /\ kern.state = "running"
    /\ t \in DOMAIN laneI
    /\ laneI[t] < kern.n
    /\ LET i == laneI[t]
           body == KernelBody(TheEntry.kernel, mem, call.group_id, call.st,
                              TheEntry.args, i)
       IN  /\ mem' = Store(mem, body.wr)
           /\ acc' = Logged(acc, <<t, i>>, body)
           /\ rowLog' = [r \in (DOMAIN rowLog) \cup {i} |->
                            IF r = i
                            THEN (IF i \in DOMAIN rowLog THEN rowLog[i] ELSE <<>>) \o <<t>>
                            ELSE rowLog[r]]
           /\ laneI' = [laneI EXCEPT ![t] = i + kern.blockDim]
    /\ UNCHANGED <<pc, call, shape, allocd, ret, err, cudaErr, checked, kern>>

\* GPU_1D_KERNEL_LOOP: lane t runs the kernel body for its row i, then
\* advances i by blockDim.x * gridDim.x; it leaves the loop once i >= n.
LaneStep(t) ==
    /\ kern.state = "running"
    /\ t \in DOMAIN laneI
    /\ laneI[t] < kern.n
    /\ LET i == laneI[t]
           body == KernelBody(TheEntry.kernel, mem, call.group_id, call.st,
                              TheEntry.args, i)
       IN  /\ mem' = Store(mem, body.wr)
           /\ acc' = Logged(acc, <<t, i>>, body)
           /\ rowLog' = [r \in (DOMAIN rowLog) \cup {i} |->
                            IF r = i
                            THEN (IF i \in DOMAIN rowLog THEN rowLog[i] ELSE <<>>) \o <<t>>
                            ELSE rowLog[r]]
           /\ laneI' = [laneI EXCEPT ![t] = i + kern.blockDim * kern.gridDim]
    /\ UNCHANGED <<pc, call, shape, allocd, ret, err, cudaErr, checked, kern>>

\* The caller is done with the call: its tensors go out of scope.  Nothing of
\* the call remains but the runtime's last error.
Release ==
    /\ pc \in {"returned", "raised"}
    /\ KernelDrained
    /\ pc' = "idle"
    /\ call' = NoCall
    /\ mem' = [b \in Bufs |-> NoBuf]
    /\ shape' = [b \in Bufs |-> <<>>]
    /\ allocd' = {}
    /\ ret' = <<>>
    /\ err' = "none"
    /\ checked' = FALSE
    /\ kern' = NoKernel
    /\ laneI' = NoLanes
    /\ acc' = NoAccess
    /\ rowLog' = NoRows
    /\ UNCHANGED cudaErr

\* the fillings of a batch of B rows: row r holds the values of seed r - 1 + s,
\* so the rows of a buffer differ from each other
Seeds(B) == {[r \in 1..B |-> r - 1 + s] : s \in 1..MaxSeed}

\* the caller calls any entry point with arguments of B rows each
Call ==
    /\ pc = "idle"
    /\ \E op \in Ops, group_id \in GroupIds, layout \in ValidGroups,
          st \in ScalarTypes, B \in 0..MaxB :
          \E seed \in Seeds(B) :
             /\ group_id \in ValidGroups => layout = group_id
             /\ Enter(op, group_id, layout, st, B, 0, seed)

Next ==
    \/ Call
    \/ Dispatch
    \/ Finish
    \/ \E t \in DOMAIN laneI : LaneStep(t)
    \/ Release

Spec == Init /\ [][Next]_vars

\* ------------------------------------------- inputs of different row counts
\* The caller calls any entry point with a first input of B rows and other
\* arguments of B + extra rows: nothing in an entry point compares the sizes
\* of its arguments.
CallAny ==
    /\ pc = "idle"
    /\ \E op \in Ops, group_id \in GroupIds, layout \in ValidGroups,
          st \in ScalarTypes, B \in 0..MaxB, extra \in 0..MaxExtra :
          \E seed \in Seeds(B + extra) :
             /\ group_id \in ValidGroups => layout = group_id
             /\ Enter(op, group_id, layout, st, B, extra, seed)

NextAny ==
    \/ CallAny
    \/ Dispatch
    \/ Finish
    \/ \E t \in DOMAIN laneI : LaneStep(t)
    \/ Release

SpecAny == Init /\ [][NextAny]_vars

\* ------------------------------------------------- a kernel launched directly
\* A kernel is a __global__ function: it can be launched on any grid.  The
\* state right after kernel<<<grid, block>>>(..., n) for the kernel of entry
\* point op on tensors of n rows, all outputs allocated.
KernelLaunched(op, G, st, n, seed, grid, block) ==
    LET sz == InputShapes(op, G, n)
        ep == EntryPoint(op, sz)
        outs == ep.pre \o ep.inside[G]
    IN  /\ pc = "launched"
        /\ call = [op |-> op, group_id |-> G, layout |-> G, st |-> st, B |-> n,
                   extra |-> 0, seed |-> seed]
        /\ mem = AllocMem(InputMem(sz, seed), outs)
        /\ shape = AllocShape([b \in Bufs |-> IF b \in InBufs THEN sz[b] ELSE <<>>], outs)
        /\ allocd = Allocated(outs)
        /\ ret = <<>>
        /\ err = "none"
        /\ cudaErr = FALSE
        /\ checked = FALSE
        /\ kern = [state |-> "running", gridDim |-> grid, blockDim |-> block, n |-> n]
        /\ laneI = [t \in 0..(grid * block - 1) |-> t]
        /\ acc = NoAccess
        /\ rowLog = NoRows

InitKernel ==
    \E op \in Ops, G \in ValidGroups, n \in 0..MaxKB, grid \in 1..MaxGrid,
       block \in 1..MaxBlock :
       KernelLaunched(op, G, Float, n, [r \in 1..n |-> r], grid, block)

NextKernel == \E t \in DOMAIN laneI : LaneStep(t)

SpecKernel == InitKernel /\ [][NextKernel]_vars

\* ------------------------------------------------------ a call on its own
\* What one call of entry point op leaves in memory when its kernel runs the
\* rows one after the other: the reference the batched, interleaved execution
\* is compared with.
RECURSIVE SeqRun(_, _, _, _, _)
SeqRun(ep, G, st, m, i) ==
    IF i >= ep.batch_size THEN m
    ELSE SeqRun(ep, G, st, Store(m, KernelBody(ep.kernel, m, G, st, ep.args, i).wr), i + 1)

RunCall(op, G, st, m, sz) ==
    LET ep == EntryPoint(op, sz)
    IN  SeqRun(ep, G, st, AllocMem(m, ep.pre \o ep.inside[G]), 0)

\* shapes and content of rows from .. from + n - 1 of the arguments of the call
SubShapes(from, n) ==
    [b \in InBufs |-> IF shape[b] = <<>> THEN <<>> ELSE <<n>> \o Tail(shape[b])]

SubMem(from, n) ==
    [b \in Bufs |->
        IF b \in InBufs /\ shape[b] # <<>>
        THEN [k \in 0..(n * RowWidth(shape[b]) - 1) |->
                 mem[b][from * RowWidth(shape[b]) + k]]
        ELSE NoBuf]

\* output tensor b of a call on rows from .. from + n - 1 of the arguments
SubResult(b, from, n) ==
    RunCall(call.op, call.group_id, call.st, SubMem(from, n), SubShapes(from, n))[b]

\* row i of tensor b of the current call
Row(b, i) == Ld(mem, b, i * RowWidth(shape[b]), RowWidth(shape[b]))

\* the call has returned and its kernel has run to completion
Completed == pc = "returned" /\ kern.state = "running" /\ KernelDrained

\* ================================================================== claims

\* C1: once a call has returned and its kernel has run, row i of every output
\* is the operation applied to row i of the inputs (what a call on row i alone
\* produces; for compose, the data of X_i * Y_i), whatever the order in which
\* the lanes ran; the rows of the output are in the order of the input rows.
C1_RowwiseResult ==
    Completed =>
        \A b \in allocd : \A i \in 0..(call.B - 1) :
            LET W == RowWidth(shape[b])
                one == SubResult(b, i, 1)
            IN  /\ \A j \in 0..(W - 1) : mem[b][i * W + j] = one[j]
                /\ call.op = "mul_forward_gpu" =>
                      Row(b, i) = Coeffs(GData(GMul(
                                      GroupOf(call.group_id, call.st, Row("in1", i)),
                                      GroupOf(call.group_id, call.st, Row("in2", i)))),
                                    GroupN(call.group_id))

C1_Witness ==
    Completed /\ call.op = "mul_forward_gpu" /\ call.B >= 2

\* C2: every location a work unit reads or writes lies in the slice of its own
\* row (i * row width .. i * row width + row width - 1) of the buffer; no
\* location is written by two units, and none is read by a unit other than
\* the one that writes it.
C2_RowSlicesDisjoint ==
    \A key \in DOMAIN acc :
        LET b == key[1]
            idx == key[2]
            W == RowWidth(shape[b])
        IN  /\ \A u \in acc[key] : idx >= u[2] * W /\ idx < u[2] * W + W
            /\ key[3] = "w" =>
                  /\ Cardinality(acc[key]) = 1
                  /\ <<b, idx, "r">> \in DOMAIN acc => acc[<<b, idx, "r">>] \subseteq acc[key]

C2_Witness ==
    /\ call.op = "act_backward_gpu"
    /\ kern.state = "running"
    /\ KernelDrained
    /\ call.B >= 2

\* C3: with L = gridDim * blockDim lanes, row i is processed exactly once, by
\* lane i mod L (so lane t processes t, t + L, t + 2L, ... below n); when the
\* lanes have left their loops every row below n has been processed; no row
\* at or above n is processed and no access falls outside a buffer.
C3_StridedAssignment ==
    LET L == kern.gridDim * kern.blockDim
    IN  /\ \A i \in DOMAIN rowLog : i < kern.n /\ rowLog[i] = <<i % L>>
        /\ \A key \in DOMAIN acc :
              /\ key[2] < Numel(shape[key[1]])
              /\ \A u \in acc[key] : u[2] < kern.n
        /\ (kern.state = "running" /\ KernelDrained) => DOMAIN rowLog = 0..(kern.n - 1)

C3_Witness ==
    /\ call.op = "exp_forward_gpu"
    /\ kern.gridDim * kern.blockDim >= 2
    /\ kern.n > kern.gridDim * kern.blockDim
    /\ KernelDrained

\* C4: the outputs of a completed call on a batch are, for every split of the
\* batch into a first part P and a rest Q, the outputs of a call on P followed
\* by the outputs of a call on Q.
C4_BatchIndependence ==
    Completed =>
        \A b \in allocd : \A k \in 0..call.B :
            LET W == RowWidth(shape[b])
                P == SubResult(b, 0, k)
                Q == SubResult(b, k, call.B - k)
            IN  /\ DOMAIN P = 0..(k * W - 1)
                /\ DOMAIN Q = 0..((call.B - k) * W - 1)
                /\ DOMAIN mem[b] = 0..(call.B * W - 1)
                /\ \A j \in DOMAIN mem[b] :
                      mem[b][j] = IF j < k * W THEN P[j] ELSE Q[j - k * W]

C4_Witness ==
    Completed /\ call.op = "adj_forward_gpu" /\ call.B >= 2

\* C5: a call with a group identifier other than the four groups, or with a
\* scalar type other than float and double, launches no kernel and does not
\* return; when it ends, it ends by raising UnsupportedGroupOrType.
C5_UnsupportedRaised ==
    (pc # "idle" /\ ~DISPATCH_GROUP_AND_FLOATING_TYPES(call.group_id, call.st)) =>
        /\ kern.state = "none"
        /\ laneI = NoLanes
        /\ ret = <<>>
        /\ pc \in {"dispatch", "raised"}
        /\ pc = "raised" => err = "UnsupportedGroupOrType"

C5_Witness ==
    pc = "raised" /\ err = "UnsupportedGroupOrType" /\ call.group_id = BadGroup

\* C6: a call that fails with UnsupportedGroupOrType has allocated no output
\* buffer: outputs are allocated only once group and precision are accepted.
C6_NoAllocationWhenUnsupported ==
    (pc = "raised" /\ err = "UnsupportedGroupOrType") => allocd = {}

\* C7: a call whose kernel launch the runtime rejected ends by raising
\* KernelLaunchFailure; it does not return normally.
C7_LaunchFailureRaised ==
    (kern.state = "failed" /\ pc \in {"returned", "raised"}) =>
        (pc = "raised" /\ err = "KernelLaunchFailure")

\* C8: a call has returned only if all its rows 0..B-1 have been processed or
\* it has performed the launch check.
C8_ReturnAfterRowsOrCheck ==
    pc = "returned" => (DOMAIN rowLog = 0..(call.B - 1) \/ checked)

\* C9: during and after a call, successful or failed, every input buffer holds
\* the values it held when the call was made, and every location written
\* belongs to an output allocated by the call.
C9_InputsUnchanged ==
    pc # "idle" =>
        /\ \A b \in InBufs :
              mem[b] = InputMem(InputShapes(call.op, call.layout, call.B), call.seed)[b]
        /\ \A key \in DOMAIN acc : key[3] = "w" => key[1] \in allocd

C9_Witness ==
    /\ call.op = "adj_backward_gpu"
    /\ pc = "returned"
    /\ kern.state = "running"
    /\ DOMAIN rowLog = 0..(call.B - 1)
    /\ call.B >= 1

\* the output shape the operation of forward entry point op has for group G
ForwardShape(op, G, B) ==
    CASE op \in {"exp_forward_gpu", "inv_forward_gpu", "mul_forward_gpu"} ->
            <<B, GroupN(G)>>
      [] op \in {"log_forward_gpu", "adj_forward_gpu", "adjT_forward_gpu",
                 "jleft_forward_gpu"} -> <<B, GroupK(G)>>
      [] op = "act_forward_gpu" -> <<B, 3>>
      [] op = "act4_forward_gpu" -> <<B, 4>>
      [] op = "as_matrix_forward_gpu" -> <<B, 4, 4>>
      [] op = "orthogonal_projector_gpu" -> <<B, GroupN(G), GroupN(G)>>

BackwardOps ==
    {"exp_backward_gpu", "log_backward_gpu", "inv_backward_gpu", "mul_backward_gpu",
     "adj_backward_gpu", "adjT_backward_gpu", "act_backward_gpu", "act4_backward_gpu"}

\* the differentiable inputs of backward entry point op, in argument order
DiffInputs(op) ==
    IF op \in {"exp_backward_gpu", "log_backward_gpu", "inv_backward_gpu"}
    THEN <<"in1">> ELSE <<"in1", "in2">>

\* C10: a forward entry point returns one buffer of B rows of the operation's
\* output width for the group; a backward entry point returns one gradient
\* buffer per differentiable input, in the order of the inputs, each of the
\* shape of its input.
C10_OutputShapes ==
    pc = "returned" =>
        IF call.op \in BackwardOps
        THEN /\ Len(ret) = Len(DiffInputs(call.op))
             /\ \A k \in DOMAIN ret :
                   /\ ret[k] \in allocd
                   /\ shape[ret[k]] = shape[DiffInputs(call.op)[k]]
                   /\ DOMAIN mem[ret[k]] = 0..(Numel(shape[ret[k]]) - 1)
             /\ \A k, l \in DOMAIN ret : ret[k] = ret[l] => k = l
        ELSE /\ Len(ret) = 1
             /\ ret[1] \in allocd
             /\ shape[ret[1]] = ForwardShape(call.op, call.group_id, call.B)
             /\ DOMAIN mem[ret[1]] = 0..(Numel(shape[ret[1]]) - 1)

C10_Witness ==
    pc = "returned" /\ call.op = "adj_forward_gpu" /\ call.group_id = Sim3 /\ call.B >= 1

\* C11: the outcome of a call depends on its own arguments only (and on what
\* the runtime answers to its own launch): a call of a supported group and
\* type returns unless its own launch was rejected, whatever calls came before.
C11_OutcomeFromOwnCall ==
    (pc \in {"returned", "raised"}
        /\ DISPATCH_GROUP_AND_FLOATING_TYPES(call.group_id, call.st)) =>
        IF TheEntry.check /\ kern.state = "failed"
        THEN pc = "raised" /\ err = "KernelLaunchFailure"
        ELSE pc = "returned" /\ err = "none"

\* the gradient with respect to a group element or a tangent vector held in
\* row i of tensor b: its K leading scalars
GradOf(b, i) == Ld(mem, b, i * RowWidth(shape[b]), GroupK(call.group_id))

\* the group element held in row i of tensor b
ElementOf(b, i) == GroupOf(call.group_id, call.st, Row(b, i))

\* C12: compose backward returns (dX, dY) in this order; for every row, dX is
\* the upstream gradient grad_Z unchanged and dY is the row vector grad_Z
\* times the K x K matrix Adjoint(X).
C12_ComposeBackward ==
    (Completed /\ call.op = "mul_backward_gpu") =>
        /\ Len(ret) = 2
        /\ shape[ret[1]] = shape["in1"]
        /\ shape[ret[2]] = shape["in2"]
        /\ \A i \in 0..(call.B - 1) :
              /\ GradOf(ret[1], i) = GradOf("grad", i)
              /\ GradOf(ret[2], i) =
                    Coeffs(VecMat(Vec(GradOf("grad", i)), GAdjMat(ElementOf("in1", i))),
                           GroupK(call.group_id))

C12_Witness ==
    Completed /\ call.op = "mul_backward_gpu" /\ call.B >= 2

\* C13: adjoint-action backward returns (dX, da) in this order; for every row,
\* da is grad_b times Adjoint(X) and dX is -grad_b times adjoint(Adjoint(X) a),
\* adjoint(.) being the matrix of the Lie bracket.
C13_AdjointBackward ==
    (Completed /\ call.op = "adj_backward_gpu") =>
        /\ Len(ret) = 2
        /\ shape[ret[1]] = shape["in1"]
        /\ shape[ret[2]] = shape["in2"]
        /\ \A i \in 0..(call.B - 1) :
              LET X == ElementOf("in1", i)
                  a == Vec(GradOf("in2", i))
                  grad_b == Vec(GradOf("grad", i))
              IN  /\ GradOf(ret[2], i) =
                        Coeffs(VecMat(grad_b, GAdjMat(X)), GroupK(call.group_id))
                  /\ GradOf(ret[1], i) =
                        Coeffs(VecMat(Neg(grad_b),
                                      Gadj(call.group_id, call.st, MatVec(GAdjMat(X), a))),
                               GroupK(call.group_id))

C13_Witness ==
    Completed /\ call.op = "adj_backward_gpu" /\ call.B >= 2 /\ call.group_id = SE3

\* C14 as stated: jleft_forward_gpu returns, for every row, the left Jacobian
\* at Log(X_i) applied to a_i.
C14_LeftJacobianApplied ==
    (Completed /\ call.op = "jleft_forward_gpu") =>
        \A i \in 0..(call.B - 1) :
            Row(ret[1], i) =
                Coeffs(MatVec(GLeftJac(call.group_id, call.st, GLog(ElementOf("in1", i))),
                              Vec(Row("in2", i))),
                       GroupK(call.group_id))

\* C14, amended: jleft_forward_gpu returns, for every row, the inverse of the
\* left Jacobian at Log(X_i) applied to a_i.
C14_LeftJacobianInverseApplied ==
    (Completed /\ call.op = "jleft_forward_gpu") =>
        /\ Len(ret) = 1
        /\ \A i \in 0..(call.B - 1) :
              Row(ret[1], i) =
                  Coeffs(MatVec(GLeftJacInv(call.group_id, call.st,
                                            GLog(ElementOf("in1", i))),
                                Vec(Row("in2", i))),
                         GroupK(call.group_id))

C14_Witness ==
    Completed /\ call.op = "jleft_forward_gpu" /\ call.B >= 2


\* the buffers in which backward entry point op returns a gradient with
\* respect to a group element
ElementGradOuts(op) ==
    CASE op = "exp_backward_gpu" -> {}
      [] op = "mul_backward_gpu" -> {"out1", "out2"}
      [] OTHER -> {"out1"}

\* the backward entry points whose upstream gradient is with respect to a
\* group element
ElementGradIns == {"exp_backward_gpu", "inv_backward_gpu", "mul_backward_gpu"}

\* the arguments of the current call, entries K..N-1 of every row of the
\* upstream gradient replaced by other values
TailReplaced ==
    [b \in Bufs |->
        IF b = "grad"
        THEN [k \in DOMAIN mem[b] |->
                 IF k % GroupN(call.group_id) >= GroupK(call.group_id)
                 THEN Garbage ELSE mem[b][k]]
        ELSE IF b \in InBufs THEN mem[b] ELSE NoBuf]

\* C15: a backward kernel writes, in a buffer holding a gradient with respect
\* to a group element, entries 0..K-1 of row i only, for row i, and entries
\* K..N-1 stay zero; once the call has completed exactly those entries of
\* every row have been written.  An upstream gradient with respect to a group
\* element is read at entries 0..K-1 of its rows only, and the outputs are
\* those of the call with entries K..N-1 of the upstream gradient replaced.
C15_TangentEntriesOnly ==
    (call.op \in BackwardOps /\ kern.state = "running") =>
        LET N == GroupN(call.group_id)
            K == GroupK(call.group_id)
        IN  /\ \A key \in DOMAIN acc :
                  (key[1] \in ElementGradOuts(call.op) /\ key[3] = "w") =>
                      /\ key[2] % N < K
                      /\ \A u \in acc[key] : u[2] = key[2] \div N
            /\ \A b \in ElementGradOuts(call.op) : \A k \in DOMAIN mem[b] :
                  (k % N >= K) => mem[b][k] = Zero
            /\ Completed =>
                  \A b \in ElementGradOuts(call.op) :
                      /\ DOMAIN mem[b] = 0..(call.B * N - 1)
                      /\ \A i \in 0..(call.B - 1) : \A j \in 0..(K - 1) :
                            <<b, i * N + j, "w">> \in DOMAIN acc
            /\ call.op \in ElementGradIns =>
                  /\ \A key \in DOMAIN acc :
                        key[1] = "grad" => key[2] % N < K
                  /\ Completed =>
                        \A b \in allocd :
                            mem[b] = RunCall(call.op, call.group_id, call.st,
                                             TailReplaced,
                                             [c \in InBufs |-> shape[c]])[b]

C15_Witness ==
    /\ Completed
    /\ call.op = "inv_backward_gpu"
    /\ call.group_id = SE3
    /\ call.B >= 2
    /\ \E k \in DOMAIN mem["grad"] :
          k % GroupN(SE3) >= GroupK(SE3) /\ mem["grad"][k] # Zero


\* the forward entry points that size their output from their second input
SizedFromSecond ==
    {"adj_forward_gpu", "adjT_forward_gpu", "act_forward_gpu", "act4_forward_gpu",
     "jleft_forward_gpu"}

\* C16: the row count of the launch, and so the rows the kernel addresses, is
\* the row count of the first input whatever the row counts of the other
\* arguments; the adjoint, transpose-adjoint, point-action, homogeneous
\* point-action and left-Jacobian-apply entry points return a buffer of the
\* shape of their second input; and when every argument has the first input's
\* row count, every location read or written lies inside its buffer.
C16_BatchFromFirstInput ==
    /\ kern.state # "none" =>
          /\ kern.n = shape["in1"][1]
          /\ kern.gridDim = NUM_BLOCKS(shape["in1"][1])
          /\ \A key \in DOMAIN acc : \A u \in acc[key] :
                /\ u[2] < shape["in1"][1]
                /\ key[2] \div RowWidth(shape[key[1]]) = u[2]
    /\ (call.op \in SizedFromSecond /\ "out1" \in allocd) =>
          shape["out1"] = shape["in2"]
    /\ (\A b \in InBufs : shape[b] # <<>> => shape[b][1] = shape["in1"][1]) =>
          \A key \in DOMAIN acc :
              /\ shape[key[1]] # <<>>
              /\ key[2] >= 0
              /\ key[2] < Numel(shape[key[1]])
              /\ key[2] \in DOMAIN mem[key[1]]

C16_Witness ==
    /\ Completed
    /\ call.op = "adj_forward_gpu"
    /\ call.B >= 2
    /\ shape["in2"][1] = call.B + 1
    /\ shape["out1"][1] = call.B + 1
    /\ Row("out1", call.B) = [j \in 1..GroupK(call.group_id) |-> Zero]

====
